---- MODULE Spec2Model ----
(***************************************************************************)
(* Model of the MyDiet backend (src/src/index.ts): the /analyze-food       *)
(* handler with its response parsing, and the /register and /login         *)
(* handlers over the users table.                                          *)
(***************************************************************************)
EXTENDS Integers, Sequences, FiniteSets, TLC

\* ------------------------------------------------------------------ bounds

\* number of /analyze-food requests that may be in flight
NumFoodReq == 2

\* number of /register and /login requests that may be in flight
NumAuthReq == 2

\* the same, where two registrations race and a login follows them
NumRaceReq == 3

FoodProcs == 1..NumFoodReq
AuthProcs == 1..NumAuthReq
RaceProcs == 1..NumRaceReq

\* ------------------------------------------------------------------ texts
\* A model reply is a sequence of tokens [k, v]; whitespace and the fence
\* markers (three backquotes, with or without the json tag) are tokens of
\* their own, so trimming and parsing act on them.

Tok(k, v) == [k |-> k, v |-> v]

LB == Tok("p", "{")
RB == Tok("p", "}")
LS == Tok("p", "[")
RS == Tok("p", "]")
COL == Tok("p", ":")
COM == Tok("p", ",")
SP == Tok("ws", " ")
NL == Tok("ws", "\n")
NUL == Tok("lit", "null")
WORD == Tok("word", "Berikut")
FenceOpen == Tok("fence", "json")
FenceClose == Tok("fence", "")
S(x) == Tok("str", x)
N(x) == Tok("num", x)

\* {"nama_makanan":"nasi","jumlah_kalori":250,"bahan_utama":["beras"]}
FullJson ==
    << LB, S("nama_makanan"), COL, S("nasi"), COM,
       S("jumlah_kalori"), COL, N("250"), COM,
       S("bahan_utama"), COL, LS, S("beras"), RS, RB >>

\* {"nama_makanan":"nasi"}
PartialJson == << LB, S("nama_makanan"), COL, S("nasi"), RB >>

\* {"jumlah_kalori":"banyak","bahan_utama":[]}
WrongTypeJson ==
    << LB, S("jumlah_kalori"), COL, S("banyak"), COM,
       S("bahan_utama"), COL, LS, RS, RB >>

SampleTexts ==
    { << >>, << SP >>, << NL, SP >>,
      FullJson,
      << SP >> \o FullJson \o << NL >>,
      << LB, SP, S("jumlah_kalori"), COL, SP, N("250"), COM, NL,
         S("bahan_utama"), COL, LS, S("beras"), COM, S("air"), RS, RB >>,
      << FenceOpen, NL >> \o FullJson \o << NL, FenceClose >>,
      << WORD, NL, FenceOpen, NL >> \o FullJson \o << NL, FenceClose, NL >>,
      PartialJson, WrongTypeJson,
      << LB, RB >>, << LS, RS >>, << NUL >>, << N("0") >>, << S("nasi") >>,
      << WORD >>, << WORD, SP, WORD >>,
      << LB, S("nama_makanan"), COL >>,
      << LB, RB, WORD >>,
      << LS, N("1"), COM, RS >>,
      << NL, LB, RB, SP >> }

\* String.prototype.trim: drop the leading and trailing whitespace
RECURSIVE TrimStart(_)
TrimStart(t) ==
    IF t # << >> /\ Head(t).k = "ws" THEN TrimStart(Tail(t)) ELSE t

RECURSIVE TrimEnd(_)
TrimEnd(t) ==
    IF t # << >> /\ t[Len(t)].k = "ws"
    THEN TrimEnd(SubSeq(t, 1, Len(t) - 1))
    ELSE t

Trim(t) == TrimEnd(TrimStart(t))

\* ------------------------------------------------------------ JSON.parse
\* Parsed values are tagged records; a parse either yields a value or the
\* message of the SyntaxError it throws.

NoVal == [t |-> "undefined"]
ParseFail(m) == [ok |-> FALSE, val |-> NoVal, next |-> 0, msg |-> m]
ParseOk(v, n) == [ok |-> TRUE, val |-> v, next |-> n, msg |-> ""]

MsgEnd == "Unexpected end of JSON input"
MsgToken == "Unexpected token"

\* JSON whitespace between tokens is insignificant
StripWs(t) == SelectSeq(t, LAMBDA x : x.k # "ws")

\* a later member with the same key replaces the earlier one
PutMember(o, key, val) ==
    Append(SelectSeq(o, LAMBDA m : m.k # key), [k |-> key, v |-> val])

RECURSIVE ParseValue(_, _), ParseElems(_, _, _), ParseMembers(_, _, _)
ParseValue(t, i) ==
    IF i > Len(t) THEN ParseFail(MsgEnd)
    ELSE LET c == t[i] IN
         CASE c.k = "num" -> ParseOk([t |-> "num", n |-> c.v], i + 1)
           [] c.k = "str" -> ParseOk([t |-> "str", s |-> c.v], i + 1)
           [] c.k = "lit" -> ParseOk([t |-> "null"], i + 1)
           [] c = LS -> IF i + 1 <= Len(t) /\ t[i + 1] = RS
                        THEN ParseOk([t |-> "arr", a |-> << >>], i + 2)
                        ELSE ParseElems(t, i + 1, << >>)
           [] c = LB -> IF i + 1 <= Len(t) /\ t[i + 1] = RB
                        THEN ParseOk([t |-> "obj", o |-> << >>], i + 2)
                        ELSE ParseMembers(t, i + 1, << >>)
           [] OTHER -> ParseFail(MsgToken)

ParseElems(t, i, acc) ==
    LET r == ParseValue(t, i) IN
    IF ~r.ok THEN r
    ELSE IF r.next > Len(t) THEN ParseFail(MsgEnd)
    ELSE IF t[r.next] = COM
         THEN ParseElems(t, r.next + 1, Append(acc, r.val))
    ELSE IF t[r.next] = RS
         THEN ParseOk([t |-> "arr", a |-> Append(acc, r.val)], r.next + 1)
    ELSE ParseFail(MsgToken)

ParseMembers(t, i, acc) ==
    IF i > Len(t) THEN ParseFail(MsgEnd)
    ELSE IF t[i].k # "str" THEN ParseFail(MsgToken)
    ELSE IF i + 1 > Len(t) THEN ParseFail(MsgEnd)
    ELSE IF t[i + 1] # COL THEN ParseFail(MsgToken)
    ELSE LET r == ParseValue(t, i + 2) IN
         IF ~r.ok THEN r
         ELSE IF r.next > Len(t) THEN ParseFail(MsgEnd)
         ELSE IF t[r.next] = COM
              THEN ParseMembers(t, r.next + 1, PutMember(acc, t[i].v, r.val))
         ELSE IF t[r.next] = RB
              THEN ParseOk([t |-> "obj", o |-> PutMember(acc, t[i].v, r.val)],
                           r.next + 1)
         ELSE ParseFail(MsgToken)

JSONParse(text) ==
    LET t == StripWs(text)
        r == ParseValue(t, 1)
    IN  IF ~r.ok THEN r
        ELSE IF r.next <= Len(t) THEN ParseFail(MsgToken)
        ELSE r

\* ------------------------------------------------------------ variables

VARIABLES
    fpc,        \* /analyze-food request p: "idle", "model" (awaiting the model) or "done"
    ffile,      \* req.file of request p (NoFile when the upload is missing)
    fcall,      \* arguments of the generateContent calls made for request p
    fout,       \* how the awaited generateContent call of request p settled
    fjson,      \* jsonText of request p, once computed
    fparsed,    \* the texts handed to JSON.parse for request p, in order
    fresp,      \* responses sent for request p, in order
    users,      \* rows of the users table, in insertion order
    nextId,     \* next value of the users.id sequence
    apc,        \* account request p: "idle", "select", "hash", "insert", "compare" or "done"
    areq,       \* route and body of account request p
    arows,      \* rows the SELECT of request p returned
    ahash,      \* hashedPassword of register request p
    ainserted,  \* the row the INSERT of register request p stored
    aresp,      \* responses sent for account request p, in order
    aprior      \* account requests that had completed when request p arrived

foodVars == << fpc, ffile, fcall, fout, fjson, fparsed, fresp >>
authVars == << users, nextId, apc, areq, arows, ahash, ainserted, aresp, aprior >>
vars == << fpc, ffile, fcall, fout, fjson, fparsed, fresp,
           users, nextId, apc, areq, arows, ahash, ainserted, aresp, aprior >>

Response(status, body) == [status |-> status, body |-> body]

\* the account requests of this run
Requests == DOMAIN apc

\* --------------------------------------------------------- /analyze-food

NoFile == [present |-> FALSE, buffer |-> << >>, mimetype |-> ""]
File(buffer, mimetype) ==
    [present |-> TRUE, buffer |-> buffer, mimetype |-> mimetype]

SampleFiles ==
    { File(<< 255, 216, 255 >>, "image/jpeg"), File(<< 137, 80 >>, "image/png") }

\* Buffer.toString('base64'): sextets 0..63, and 64 for the padding sign
RECURSIVE BitsOf(_)
BitsOf(bytes) ==
    IF bytes = << >> THEN << >>
    ELSE [i \in 1..8 |-> (Head(bytes) \div (2 ^ (8 - i))) % 2]
         \o BitsOf(Tail(bytes))

Base64(bytes) ==
    LET bits == BitsOf(bytes)
        padded == bits \o [i \in 1..((6 - (Len(bits) % 6)) % 6) |-> 0]
        sextets == [j \in 1..(Len(padded) \div 6) |->
                      32 * padded[6 * j - 5] + 16 * padded[6 * j - 4]
                      + 8 * padded[6 * j - 3] + 4 * padded[6 * j - 2]
                      + 2 * padded[6 * j - 1] + padded[6 * j]]
    IN  sextets \o [i \in 1..((4 - (Len(sextets) % 4)) % 4) |-> 64]

fileToGenerativePart(buffer, mimeType) ==
    [inlineData |-> [data |-> Base64(buffer), mimeType |-> mimeType]]

foodAnalysisSchema ==
    [type |-> "OBJECT",
     properties |-> [nama_makanan |-> "STRING", jumlah_kalori |-> "NUMBER",
                     bahan_utama |-> "ARRAY of STRING"],
     required |-> << "nama_makanan", "jumlah_kalori", "bahan_utama" >>]

GenerateContentArgs(file) ==
    [model |-> "gemini-2.5-flash",
     contents |-> << "prompt", fileToGenerativePart(file.buffer, file.mimetype) >>,
     config |-> [responseMimeType |-> "application/json",
                 responseSchema |-> foodAnalysisSchema]]

\* What the awaited generateContent call can do: reject with a thrown value,
\* or resolve to a response object whose text may be undefined.
Thrown(isError, message) ==
    [kind |-> "throw", isError |-> isError, message |-> message,
     hasText |-> FALSE, text |-> << >>]
Resolved(hasText, text) ==
    [kind |-> "result", isError |-> FALSE, message |-> "",
     hasText |-> hasText, text |-> text]

ModelOutcomes ==
    { Thrown(TRUE, "429 quota exceeded"), Thrown(TRUE, "fetch failed"),
      Thrown(FALSE, "") }
    \cup { Resolved(FALSE, << >>) }
    \cup { Resolved(TRUE, t) : t \in SampleTexts }

\* the object bound to `result`
ResultObject(o) == [hasText |-> o.hasText, text |-> o.text]

\* the text of the reply taken as it is, untrimmed
JsonText_NoTrim(result) ==
    IF result.hasText /\ result.text # << >> THEN result.text ELSE << >>

\* const jsonText = result.text ? result.text.trim() : ''
JsonText(result) ==
    IF result.hasText /\ result.text # << >> THEN Trim(result.text) ELSE << >>

\* the handler without its file check
AnalyzeFood_NoFileCheck(p, file) ==
    /\ fpc[p] = "idle"
    /\ ffile' = [ffile EXCEPT ![p] = file]
    /\ fcall' = [fcall EXCEPT ![p] = Append(@, GenerateContentArgs(file))]
    /\ fpc' = [fpc EXCEPT ![p] = "model"]
    /\ UNCHANGED << fout, fjson, fparsed, fresp, authVars >>

\* lines 83-102: the file check and the call of the model
AnalyzeFood(p, file) ==
    /\ fpc[p] = "idle"
    /\ ffile' = [ffile EXCEPT ![p] = file]
    /\ IF ~file.present
       THEN /\ fresp' = [fresp EXCEPT ![p] =
                   Append(@, Response(400, [error |-> "No image file uploaded."]))]
            /\ fpc' = [fpc EXCEPT ![p] = "done"]
            /\ UNCHANGED fcall
       ELSE /\ fcall' = [fcall EXCEPT ![p] = Append(@, GenerateContentArgs(file))]
            /\ fpc' = [fpc EXCEPT ![p] = "model"]
            /\ UNCHANGED fresp
    /\ UNCHANGED << fout, fjson, fparsed, authVars >>

\* the outer catch answering with its default message only
AnalyzeCatch_DefaultMessage(p, o) ==
    /\ fresp' = [fresp EXCEPT ![p] = Append(@, Response(500,
           [success |-> FALSE, error |-> "Gagal menganalisis gambar.",
            details |-> "Terjadi kesalahan yang tidak diketahui."]))]
    /\ UNCHANGED << fjson, fparsed >>

\* lines 124-131: the outer catch
AnalyzeCatch(p, o) ==
    LET errorMessage ==
            IF o.isError THEN o.message
            ELSE "Terjadi kesalahan yang tidak diketahui."
    IN  /\ fresp' = [fresp EXCEPT ![p] = Append(@, Response(500,
               [success |-> FALSE, error |-> "Gagal menganalisis gambar.",
                details |-> errorMessage]))]
        /\ UNCHANGED << fjson, fparsed >>

\* lines 105-123: the text of the reply, the empty check and the parse
AnalyzeReply(p, o) ==
    LET result == ResultObject(o)
        jsonText == JsonText(result)
        parsed == JSONParse(jsonText)
    IN  /\ fjson' = [fjson EXCEPT ![p] = << jsonText >>]
        /\ IF jsonText = << >>
           THEN /\ fresp' = [fresp EXCEPT ![p] = Append(@, Response(500,
                       [success |-> FALSE, error |-> "Model response was empty.",
                        rawResponse |-> result]))]
                /\ UNCHANGED fparsed
           ELSE /\ fparsed' = [fparsed EXCEPT ![p] = Append(@, jsonText)]
                /\ IF parsed.ok
                   THEN fresp' = [fresp EXCEPT ![p] = Append(@, Response(200,
                            [success |-> TRUE, data |-> parsed.val]))]
                   ELSE fresp' = [fresp EXCEPT ![p] = Append(@, Response(500,
                            [success |-> FALSE,
                             error |-> "Gagal memparsing respons Gemini.",
                             details |-> parsed.msg, rawResponse |-> jsonText]))]

\* the handler resumes when the awaited call settles
AnalyzeResume(p, o) ==
    /\ fpc[p] = "model"
    /\ fout' = [fout EXCEPT ![p] = << o >>]
    /\ IF o.kind = "throw" THEN AnalyzeCatch(p, o) ELSE AnalyzeReply(p, o)
    /\ fpc' = [fpc EXCEPT ![p] = "done"]
    /\ UNCHANGED << ffile, fcall, authVars >>

InitFood ==
    /\ fpc = [p \in FoodProcs |-> "idle"]
    /\ ffile = [p \in FoodProcs |-> NoFile]
    /\ fcall = [p \in FoodProcs |-> << >>]
    /\ fout = [p \in FoodProcs |-> << >>]
    /\ fjson = [p \in FoodProcs |-> << >>]
    /\ fparsed = [p \in FoodProcs |-> << >>]
    /\ fresp = [p \in FoodProcs |-> << >>]

\* ------------------------------------------------------------- accounts

Names == { "Ana", "Bob" }
Emails == { "a@x.com", "b@x.com" }
Passwords == { "pw1", "pw2" }

Body(name, email, password) ==
    [name |-> name, email |-> email, password |-> password]

\* request bodies: two users claiming one email with different passwords, a
\* user with another email, and one body for each missing field
RegisterBodies ==
    { Body("Ana", "a@x.com", "pw1"), Body("Bob", "a@x.com", "pw2"),
      Body("Ana", "b@x.com", "pw1") }
    \cup { Body("", "a@x.com", "pw1"), Body("Ana", "", "pw1"),
           Body("Ana", "a@x.com", "") }

LoginBodies ==
    { Body("", "a@x.com", "pw1"), Body("", "a@x.com", "pw2"),
      Body("", "b@x.com", "pw1") }
    \cup { Body("", "", "pw1"), Body("", "a@x.com", "") }

\* a field that is missing or empty: !field is true
Falsy(x) == x = ""

\* bcryptjs: a hash carries its cost and salt; compare recomputes the digest
BcryptCost == 10
Salts == { 1, 2 }
PwCode(pw) == CASE pw = "pw1" -> 1 [] pw = "pw2" -> 2 [] OTHER -> 0
Digest(pw, cost, salt) == (PwCode(pw) * 7 + salt * 3 + cost) % 16

BcryptHash(pw, cost, salt) ==
    [kind |-> "bcrypt", cost |-> cost, salt |-> salt,
     digest |-> Digest(pw, cost, salt)]

BcryptCompare(pw, h) ==
    /\ h.kind = "bcrypt"
    /\ Digest(pw, h.cost, h.salt) = h.digest

\* SELECT * FROM users WHERE email = $1
SelectByEmail(email) == SelectSeq(users, LAMBDA r : r.email = email)

\* the result rows with row k delivered first: the query states no order
RowsFrom(rows, k) ==
    << rows[k] >> \o SubSeq(rows, 1, k - 1) \o SubSeq(rows, k + 1, Len(rows))

Reply(p, status, body) ==
    /\ aresp' = [aresp EXCEPT ![p] = Append(@, Response(status, body))]
    /\ apc' = [apc EXCEPT ![p] = "done"]

Completed == { q \in Requests : apc[q] = "done" }

InternalError(p) == Reply(p, 500, [error |-> "Internal server error."])

\* lines 136-145: the body, the field check and the existence query
Register(p, name, email, password) ==
    /\ apc[p] = "idle"
    /\ areq' = [areq EXCEPT ![p] =
           [route |-> "register", name |-> name, email |-> email,
            password |-> password]]
    /\ aprior' = [aprior EXCEPT ![p] = Completed]
    /\ IF Falsy(name) \/ Falsy(email) \/ Falsy(password)
       THEN Reply(p, 400, [error |-> "Semua field wajib diisi."])
       ELSE /\ apc' = [apc EXCEPT ![p] = "select"]
            /\ UNCHANGED aresp
    /\ UNCHANGED << users, nextId, arows, ahash, ainserted, foodVars >>

\* the existence query settling with no duplicate check after it
RegisterSelect_NoDuplicateCheck(p, fails) ==
    /\ apc[p] = "select"
    /\ areq[p].route = "register"
    /\ IF fails
       THEN InternalError(p) /\ UNCHANGED arows
       ELSE /\ arows' = [arows EXCEPT ![p] = SelectByEmail(areq[p].email)]
            /\ apc' = [apc EXCEPT ![p] = "hash"]
            /\ UNCHANGED aresp
    /\ UNCHANGED << users, nextId, areq, ahash, ainserted, aprior, foodVars >>

\* lines 145-152: the existence query settles; the duplicate check
RegisterSelect(p, fails) ==
    /\ apc[p] = "select"
    /\ areq[p].route = "register"
    /\ IF fails
       THEN InternalError(p) /\ UNCHANGED arows
       ELSE /\ arows' = [arows EXCEPT ![p] = SelectByEmail(areq[p].email)]
            /\ IF Len(SelectByEmail(areq[p].email)) > 0
               THEN Reply(p, 400, [error |-> "Email sudah digunakan."])
               ELSE /\ apc' = [apc EXCEPT ![p] = "hash"]
                    /\ UNCHANGED aresp
    /\ UNCHANGED << users, nextId, areq, ahash, ainserted, aprior, foodVars >>

\* the password passed on unhashed
RegisterHash_Plaintext(p, salt) ==
    /\ apc[p] = "hash"
    /\ ahash' = [ahash EXCEPT ![p] =
           << [kind |-> "plain", text |-> areq[p].password] >>]
    /\ apc' = [apc EXCEPT ![p] = "insert"]
    /\ UNCHANGED << users, nextId, areq, arows, ainserted, aresp, aprior, foodVars >>

\* lines 152-158: the hash settles; the INSERT is sent
RegisterHash(p, salt) ==
    /\ apc[p] = "hash"
    /\ ahash' = [ahash EXCEPT ![p] =
           << BcryptHash(areq[p].password, BcryptCost, salt) >>]
    /\ apc' = [apc EXCEPT ![p] = "insert"]
    /\ UNCHANGED << users, nextId, areq, arows, ainserted, aresp, aprior, foodVars >>

\* an INSERT that stores nothing when the email is already there
RegisterInsert_SkipDuplicate(p, fails) ==
    /\ apc[p] = "insert"
    /\ IF fails
       THEN InternalError(p) /\ UNCHANGED << users, nextId, ainserted >>
       ELSE LET row == [id |-> nextId, name |-> areq[p].name,
                        email |-> areq[p].email, password |-> ahash[p][1]]
            IN  /\ IF Len(SelectByEmail(areq[p].email)) > 0
                   THEN UNCHANGED << users, nextId, ainserted >>
                   ELSE /\ users' = Append(users, row)
                        /\ nextId' = nextId + 1
                        /\ ainserted' = [ainserted EXCEPT ![p] = << row >>]
                /\ Reply(p, 200, [success |-> TRUE, message |-> "Register berhasil."])
    /\ UNCHANGED << areq, arows, ahash, aprior, foodVars >>

\* lines 155-165: the INSERT settles
RegisterInsert(p, fails) ==
    /\ apc[p] = "insert"
    /\ IF fails
       THEN InternalError(p) /\ UNCHANGED << users, nextId, ainserted >>
       ELSE LET row == [id |-> nextId, name |-> areq[p].name,
                        email |-> areq[p].email, password |-> ahash[p][1]]
            IN  /\ users' = Append(users, row)
                /\ nextId' = nextId + 1
                /\ ainserted' = [ainserted EXCEPT ![p] = << row >>]
                /\ Reply(p, 200, [success |-> TRUE, message |-> "Register berhasil."])
    /\ UNCHANGED << areq, arows, ahash, aprior, foodVars >>

\* lines 169-177: the body, the field check and the user query
Login(p, email, password) ==
    /\ apc[p] = "idle"
    /\ areq' = [areq EXCEPT ![p] =
           [route |-> "login", name |-> "", email |-> email,
            password |-> password]]
    /\ aprior' = [aprior EXCEPT ![p] = Completed]
    /\ IF Falsy(email) \/ Falsy(password)
       THEN Reply(p, 400, [error |-> "Email dan password wajib diisi."])
       ELSE /\ apc' = [apc EXCEPT ![p] = "select"]
            /\ UNCHANGED aresp
    /\ UNCHANGED << users, nextId, arows, ahash, ainserted, foodVars >>

\* lines 177-186: the user query settles; rows[0] goes to bcrypt.compare
LoginSelect(p, fails, k) ==
    /\ apc[p] = "select"
    /\ areq[p].route = "login"
    /\ IF fails
       THEN k = 1 /\ InternalError(p) /\ UNCHANGED arows
       ELSE LET rows == SelectByEmail(areq[p].email) IN
            IF Len(rows) = 0
            THEN /\ k = 1
                 /\ arows' = [arows EXCEPT ![p] = << >>]
                 /\ Reply(p, 400, [error |-> "Email tidak ditemukan."])
            ELSE /\ k \in 1..Len(rows)
                 /\ arows' = [arows EXCEPT ![p] = RowsFrom(rows, k)]
                 /\ apc' = [apc EXCEPT ![p] = "compare"]
                 /\ UNCHANGED aresp
    /\ UNCHANGED << users, nextId, areq, ahash, ainserted, aprior, foodVars >>

\* a failed comparison answered as an unknown email
LoginCompare_NotFoundOnMismatch(p) ==
    /\ apc[p] = "compare"
    /\ LET user == arows[p][1]
           validPass == BcryptCompare(areq[p].password, user.password)
       IN  IF ~validPass
           THEN Reply(p, 400, [error |-> "Email tidak ditemukan."])
           ELSE Reply(p, 200,
                    [success |-> TRUE, message |-> "Login berhasil.",
                     user |-> [id |-> user.id, name |-> user.name,
                               email |-> user.email]])
    /\ UNCHANGED << users, nextId, areq, arows, ahash, ainserted, aprior, foodVars >>

\* lines 186-207: the comparison settles
LoginCompare(p) ==
    /\ apc[p] = "compare"
    /\ LET user == arows[p][1]
           validPass == BcryptCompare(areq[p].password, user.password)
       IN  IF ~validPass
           THEN Reply(p, 400, [error |-> "Password salah."])
           ELSE Reply(p, 200,
                    [success |-> TRUE, message |-> "Login berhasil.",
                     user |-> [id |-> user.id, name |-> user.name,
                               email |-> user.email]])
    /\ UNCHANGED << users, nextId, areq, arows, ahash, ainserted, aprior, foodVars >>

InitAuth(procs) ==
    /\ users = << >>
    /\ nextId = 1
    /\ apc = [p \in procs |-> "idle"]
    /\ areq = [p \in procs |-> [route |-> "", name |-> "", email |-> "", password |-> ""]]
    /\ arows = [p \in procs |-> << >>]
    /\ ahash = [p \in procs |-> << >>]
    /\ ainserted = [p \in procs |-> << >>]
    /\ aresp = [p \in procs |-> << >>]
    /\ aprior = [p \in procs |-> {}]

Init == InitFood /\ InitAuth(AuthProcs)

InitRace == InitFood /\ InitAuth(RaceProcs)

NextFood ==
    \E p \in FoodProcs :
        \/ \E file \in SampleFiles \cup { NoFile } : AnalyzeFood(p, file)
        \/ \E o \in ModelOutcomes : AnalyzeResume(p, o)

SpecFood == Init /\ [][NextFood]_vars

\* requests arrive and their awaited calls settle in any order
NextAuth ==
    \E p \in Requests :
        \/ \E b \in RegisterBodies : Register(p, b.name, b.email, b.password)
        \/ \E b \in LoginBodies : Login(p, b.email, b.password)
        \/ \E fails \in BOOLEAN : RegisterSelect(p, fails)
        \/ \E salt \in Salts : RegisterHash(p, salt)
        \/ \E fails \in BOOLEAN : RegisterInsert(p, fails)
        \/ \E fails \in BOOLEAN, k \in 1..Cardinality(Requests) : LoginSelect(p, fails, k)
        \/ LoginCompare(p)

SpecAuth == Init /\ [][NextAuth]_vars

SpecRace == InitRace /\ [][NextAuth]_vars

\* one request at a time: a request arrives only when no other is in flight
NoneInFlight == \A q \in Requests : apc[q] \in { "idle", "done" }

NextSeq ==
    \E p \in Requests :
        \/ \E b \in RegisterBodies :
               NoneInFlight /\ Register(p, b.name, b.email, b.password)
        \/ \E b \in LoginBodies :
               NoneInFlight /\ Login(p, b.email, b.password)
        \/ \E fails \in BOOLEAN : RegisterSelect(p, fails)
        \/ \E salt \in Salts : RegisterHash(p, salt)
        \/ \E fails \in BOOLEAN : RegisterInsert(p, fails)
        \/ \E fails \in BOOLEAN, k \in 1..Cardinality(Requests) : LoginSelect(p, fails, k)
        \/ LoginCompare(p)

SpecSeq == Init /\ [][NextSeq]_vars

\* ------------------------------------------------- claims: /analyze-food

Member(o, key) == CHOOSE m \in { o[i] : i \in 1..Len(o) } : m.k = key
HasMember(o, key) == \E i \in 1..Len(o) : o[i].k = key

\* a numeric jumlah_kalori and a non-empty list of strings as bahan_utama
IsFoodResult(d) ==
    /\ d.t = "obj"
    /\ HasMember(d.o, "jumlah_kalori")
    /\ Member(d.o, "jumlah_kalori").v.t = "num"
    /\ HasMember(d.o, "bahan_utama")
    /\ Member(d.o, "bahan_utama").v.t = "arr"
    /\ Member(d.o, "bahan_utama").v.a # << >>
    /\ \A i \in 1..Len(Member(d.o, "bahan_utama").v.a) :
           Member(d.o, "bahan_utama").v.a[i].t = "str"

IsBlank(text) == \A i \in 1..Len(text) : text[i].k = "ws"

\* j is t without its leading and trailing whitespace
IsTrimOf(j, t) ==
    /\ j # << >> => Head(j).k # "ws" /\ j[Len(j)].k # "ws"
    /\ \E a \in 0..Len(t) : \E b \in 0..(Len(t) - a) :
           /\ j = SubSeq(t, a + 1, Len(t) - b)
           /\ IsBlank(SubSeq(t, 1, a))
           /\ IsBlank(SubSeq(t, Len(t) - b + 1, Len(t)))

FoodDone(p) == fpc[p] = "done"
FoodOutcome(p) == fout[p][1]
FoodReply(p) == fresp[p][1]

\* C1: every request with a file is answered by a 200 whose data has a numeric
\* jumlah_kalori and a non-empty list of strings as bahan_utama, or by a 500
\* error envelope; whatever the model returned.
C1_ValidResultOrError ==
    \A p \in FoodProcs :
        FoodDone(p) /\ ffile[p].present =>
            \A i \in 1..Len(fresp[p]) :
                \/ /\ fresp[p][i].status = 200
                   /\ fresp[p][i].body.success
                   /\ IsFoodResult(fresp[p][i].body.data)
                \/ /\ fresp[p][i].status = 500
                   /\ ~fresp[p][i].body.success

\* C5: a request without a file is answered with exactly one response, status
\* 400 with an error field, and generateContent is never called for it.
C5_MissingFile400 ==
    \A p \in FoodProcs :
        ~ffile[p].present =>
            /\ fcall[p] = << >>
            /\ fout[p] = << >>
            /\ FoodDone(p) =>
                   /\ Len(fresp[p]) = 1
                   /\ FoodReply(p).status = 400
                   /\ "error" \in DOMAIN FoodReply(p).body

C5_Witness ==
    \E p \in FoodProcs : FoodDone(p) /\ ~ffile[p].present /\ Len(fresp[p]) = 1

HasFence(t) ==
    \E i \in 1..Len(t) : \E j \in (i + 1)..Len(t) :
        t[i] = FenceOpen /\ t[j] = FenceClose

FenceInterior(t) ==
    LET i == CHOOSE a \in 1..Len(t) :
                 /\ t[a] = FenceOpen
                 /\ \E j \in (a + 1)..Len(t) : t[j] = FenceClose
                 /\ \A b \in 1..(a - 1) :
                        ~(t[b] = FenceOpen /\ \E j \in (b + 1)..Len(t) : t[j] = FenceClose)
        j == CHOOSE c \in (i + 1)..Len(t) :
                 t[c] = FenceClose /\ \A d \in (i + 1)..(c - 1) : t[d] # FenceClose
    IN  SubSeq(t, i + 1, j - 1)

TrimOf(t) ==
    CHOOSE j \in { SubSeq(t, a, b) : a \in 1..(Len(t) + 1), b \in 0..Len(t) } :
        IsTrimOf(j, t)

Normalized(t) == IF HasFence(t) THEN TrimOf(FenceInterior(t)) ELSE TrimOf(t)

\* C7 as stated: the parser is handed the trimmed interior of the fenced block
\* when the reply has one and the trimmed reply otherwise, and a reply that
\* wraps valid JSON in a fence is answered with 200.
C7_FenceExtracted ==
    \A p \in FoodProcs :
        FoodDone(p) /\ Len(fout[p]) = 1 /\ FoodOutcome(p).kind = "result"
        /\ FoodOutcome(p).hasText =>
            LET text == FoodOutcome(p).text IN
            /\ \A i \in 1..Len(fparsed[p]) : fparsed[p][i] = Normalized(text)
            /\ JSONParse(Normalized(text)).ok =>
                   /\ FoodReply(p).status = 200
                   /\ FoodReply(p).body.data = JSONParse(Normalized(text)).val

\* C7 amended: the parser is handed the trimmed whole reply, fence or no fence;
\* a fenced reply is answered with the 500 parse error; JSON that is already
\* clean is handed over unchanged and answered with 200.
C7_TrimmedWholeText ==
    \A p \in FoodProcs :
        FoodDone(p) /\ Len(fout[p]) = 1 /\ FoodOutcome(p).kind = "result"
        /\ FoodOutcome(p).hasText =>
            LET text == FoodOutcome(p).text IN
            /\ \A i \in 1..Len(fparsed[p]) : IsTrimOf(fparsed[p][i], text)
            /\ HasFence(text) =>
                   /\ Len(fparsed[p]) = 1
                   /\ FoodReply(p).status = 500
                   /\ FoodReply(p).body.error = "Gagal memparsing respons Gemini."
            /\ IsTrimOf(text, text) /\ text # << >> /\ JSONParse(text).ok =>
                   /\ fparsed[p] = << text >>
                   /\ FoodReply(p).status = 200
                   /\ FoodReply(p).body.data = JSONParse(text).val

\* a reply wrapping valid JSON in a fence has been answered
C7_Witness ==
    \E p \in FoodProcs :
        /\ FoodDone(p) /\ Len(fout[p]) = 1 /\ FoodOutcome(p).kind = "result"
        /\ HasFence(FoodOutcome(p).text)
        /\ JSONParse(FenceInterior(FoodOutcome(p).text)).ok
        /\ Len(fparsed[p]) = 1
        /\ FoodReply(p).status = 500

\* ------------------------------------------------------ claims: accounts

IsRegister(p) == areq[p].route = "register"
IsLogin(p) == areq[p].route = "login"
AuthDone(p) == apc[p] = "done" /\ Len(aresp[p]) = 1
AuthReply(p) == aresp[p][1]
Succeeded(p) == AuthDone(p) /\ AuthReply(p).status = 200
StoreFailed(p) == AuthDone(p) /\ AuthReply(p).status = 500
Refused(p, why) ==
    AuthDone(p) /\ AuthReply(p).status = 400 /\ AuthReply(p).body.error = why
RowCount(e) == Cardinality({ i \in 1..Len(users) : users[i].email = e })

\* registrations of email e that had returned success when request p arrived
RegisteredBefore(p, e) ==
    { q \in aprior[p] : IsRegister(q) /\ Succeeded(q) /\ areq[q].email = e }

\* C2: with one request at a time and no store failure, a complete register
\* request succeeds when no earlier one succeeded for its email and is refused
\* as a duplicate otherwise, and the table holds exactly one row per
\* registered email.
C2_SecondRegisterRejected ==
    /\ \A p \in Requests :
           AuthDone(p) /\ IsRegister(p) /\ ~StoreFailed(p)
           /\ ~Falsy(areq[p].name) /\ ~Falsy(areq[p].email)
           /\ ~Falsy(areq[p].password) =>
               IF RegisteredBefore(p, areq[p].email) = {}
               THEN Succeeded(p) /\ AuthReply(p).body.success
               ELSE Refused(p, "Email sudah digunakan.")
    /\ \A e \in Emails :
           RowCount(e) =
               IF \E p \in Requests :
                      IsRegister(p) /\ Succeeded(p) /\ areq[p].email = e
               THEN 1 ELSE 0

C2_Witness ==
    \E p, q \in Requests :
        /\ IsRegister(p) /\ IsRegister(q)
        /\ areq[p].email = areq[q].email
        /\ Succeeded(p)
        /\ p \in aprior[q]
        /\ Refused(q, "Email sudah digunakan.")
        /\ RowCount(areq[p].email) = 1

\* C3: a login that starts after a register request returned success, with
\* that request's email and password, succeeds and returns the id, name and
\* email of the row that registration stored, whatever other register
\* requests ran before, after or alongside it.
C3_LoginAfterRegister ==
    \A l \in Requests :
        AuthDone(l) /\ IsLogin(l) /\ ~StoreFailed(l) =>
            \A r \in RegisteredBefore(l, areq[l].email) :
                areq[r].password = areq[l].password =>
                    /\ Succeeded(l)
                    /\ AuthReply(l).body.user =
                           [id |-> ainserted[r][1].id, name |-> areq[r].name,
                            email |-> areq[r].email]

\* the password the registration of a row submitted
SubmittedFor(row) ==
    { areq[q].password : q \in { x \in Requests : ainserted[x] = << row >> } }

\* C4: a login whose email has a row and whose password is not the one that
\* row was registered with is refused as a wrong password, never as an unknown
\* email; the unknown-email refusal is sent only when the query found no row,
\* which never happens once a registration of that email has succeeded.
C4_WrongPasswordNotNotFound ==
    \A l \in Requests :
        AuthDone(l) /\ IsLogin(l) /\ ~StoreFailed(l)
        /\ ~Falsy(areq[l].email) /\ ~Falsy(areq[l].password) =>
            /\ \A i \in 1..Len(arows[l]) :
                   /\ arows[l][i].email = areq[l].email
                   /\ \E j \in 1..Len(users) : users[j] = arows[l][i]
            /\ arows[l] # << >> /\ areq[l].password \notin SubmittedFor(arows[l][1]) =>
                   Refused(l, "Password salah.")
            /\ Refused(l, "Email tidak ditemukan.") =>
                   /\ arows[l] = << >>
                   /\ RegisteredBefore(l, areq[l].email) = {}
            /\ arows[l] = << >> => Refused(l, "Email tidak ditemukan.")

C4_Witness ==
    \E l \in Requests :
        /\ IsLogin(l) /\ Refused(l, "Password salah.")
        /\ arows[l] # << >>
        /\ areq[l].password \notin SubmittedFor(arows[l][1])

\* C6: every failure response of every handler, 400 or 500, has success equal
\* to false and an error field.
C6_FailureEnvelope ==
    /\ \A p \in FoodProcs : \A i \in 1..Len(fresp[p]) :
           fresp[p][i].status \in { 400, 500 } =>
               /\ "error" \in DOMAIN fresp[p][i].body
               /\ "success" \in DOMAIN fresp[p][i].body
               /\ fresp[p][i].body.success = FALSE
    /\ \A p \in Requests : \A i \in 1..Len(aresp[p]) :
           aresp[p][i].status \in { 400, 500 } =>
               /\ "error" \in DOMAIN aresp[p][i].body
               /\ "success" \in DOMAIN aresp[p][i].body
               /\ aresp[p][i].body.success = FALSE

\* C9: every row's password column holds the bcrypt hash of the password its
\* registration submitted, never the password itself; no /register or /login
\* response carries a password or a hash; a login success carries exactly the
\* id, name and email of the user.
C9_PasswordNeverExposed ==
    /\ \A i \in 1..Len(users) :
           /\ users[i].password.kind = "bcrypt"
           /\ "text" \notin DOMAIN users[i].password
           /\ \E p \in Requests :
                  /\ ainserted[p] = << users[i] >>
                  /\ \E salt \in Salts :
                         users[i].password =
                             BcryptHash(areq[p].password, BcryptCost, salt)
    /\ \A p \in Requests : \A i \in 1..Len(aresp[p]) :
           LET body == aresp[p][i].body IN
           /\ DOMAIN body \subseteq { "success", "message", "error", "user" }
           /\ \A f \in DOMAIN body \ { "success", "user" } : body[f] \notin Passwords
           /\ "user" \in DOMAIN body =>
                  /\ DOMAIN body.user = { "id", "name", "email" }
                  /\ body.user.name \notin Passwords
                  /\ body.user.email \notin Passwords
                  /\ \E j \in 1..Len(users) :
                         body.user = [id |-> users[j].id, name |-> users[j].name,
                                      email |-> users[j].email]

C9_Witness ==
    \E p, l \in Requests :
        /\ IsRegister(p) /\ Succeeded(p)
        /\ IsLogin(l) /\ Succeeded(l)
        /\ "user" \in DOMAIN AuthReply(l).body
        /\ AuthReply(l).body.user.id = ainserted[p][1].id

\* two register requests for one email that both passed the existence check
PassedCheck(p) == IsRegister(p) /\ arows[p] = << >> /\ ahash[p] # << >>

\* C10: when two register requests for one email have both read zero rows, each
\* of them whose INSERT does not fail stores its row and returns success, so
\* two rows with the same email are left: one row per email is no invariant.
C10_BothInsert ==
    \A p, q \in Requests :
        p # q /\ PassedCheck(p) /\ PassedCheck(q)
        /\ areq[p].email = areq[q].email
        /\ AuthDone(p) /\ AuthDone(q)
        /\ ~StoreFailed(p) /\ ~StoreFailed(q) =>
            /\ Succeeded(p) /\ Succeeded(q)
            /\ ainserted[p] # << >> /\ ainserted[q] # << >>
            /\ ainserted[p][1].id # ainserted[q][1].id
            /\ RowCount(areq[p].email) >= 2

C10_Witness ==
    \E p, q \in Requests :
        /\ p # q /\ PassedCheck(p) /\ PassedCheck(q)
        /\ areq[p].email = areq[q].email
        /\ Succeeded(p) /\ Succeeded(q)
        /\ RowCount(areq[p].email) = 2

====
